---------------------------- MODULE Spec2Model ----------------------------
(***************************************************************************)
(* A model of siphon/cdmr/ncstream.py: the ncstream frame reader           *)
(* (read_magic, read_var_int, read_block), the type table                  *)
(* (data_type_to_numpy, struct_to_dtype), the array materializer           *)
(* (make_array), the message dispatcher (read_ncstream_messages) and the   *)
(* metadata decoders (unpack_variable, unpack_attribute).                  *)
(*                                                                         *)
(* A byte source is a sequence of bytes 0..255 together with the number    *)
(* of bytes already consumed.  Python exceptions are modelled by their     *)
(* class name.                                                             *)
(***************************************************************************)
EXTENDS Integers, Sequences, FiniteSets, TLC

VARIABLES
    src,        \* the bytes of the source fobj
    pos,        \* number of bytes of src consumed so far
    pc,         \* where the modelled call stands
    err,        \* the exception that ended the call, NoError before
    ret,        \* <<value>> once the call has returned, <<>> before
    messages,   \* read_ncstream_messages: the list being accumulated
    magic,      \* read_ncstream_messages: the local variable magic
    data,       \* read_ncstream_messages: the local variable data
    blocks,     \* read_ncstream_messages: the local variable blocks
    decoded,    \* history: what each message-producing frame decoded to
    records,    \* history: what each sub-frame of the current SEQUENCE decoded to
    seqStart,   \* history: position just after the last SEQUENCE header block
    val,        \* read_var_int: the accumulator
    shift,      \* read_var_int: the shift of the next group
    call        \* the function called and its arguments

vars == <<src, pos, pc, err, ret, messages, magic, data, blocks, decoded,
          records, seqStart, val, shift, call>>

----------------------------------------------------------------------------
(* Bounds of the model.                                                    *)

\* number of pieces a source of read_ncstream_messages is built from
MaxFrames == 3
\* read_var_int results of 2^28 or more are all represented by this value
MaxVarInt == 268435456

----------------------------------------------------------------------------
(* Wire constants.                                                         *)

MAGIC_HEADER == <<173, 236, 206, 218>>
MAGIC_DATA   == <<171, 236, 206, 186>>
MAGIC_VDATA  == <<171, 239, 254, 186>>
MAGIC_VEND   == <<237, 239, 254, 218>>
MAGIC_ERR    == <<171, 173, 186, 218>>

\* stream.DataType codes
CHAR      == 0
BYTE      == 1
SHORT     == 2
INT       == 3
LONG      == 4
FLOAT     == 5
DOUBLE    == 6
STRING_   == 7
STRUCTURE == 8
SEQUENCE  == 9
ENUM1     == 10
ENUM2     == 11
ENUM4     == 12
OPAQUE    == 13

\* stream.Compress codes
NONE    == 0
DEFLATE == 1

Min(a, b) == IF a < b THEN a ELSE b

NoError == [kind |-> "none", text |-> <<>>]
Raise(kind) == [kind |-> kind, text |-> <<>>]

----------------------------------------------------------------------------
(* The byte source: fobj.read(n).                                          *)

\* fobj.read(n): at most n bytes, fewer when the source ends first
Read(s, p, n) == SubSeq(s, p + 1, Min(p + n, Len(s)))
AfterRead(s, p, n) == Min(p + n, Len(s))

\* read_magic
read_magic(s, p) == Read(s, p, 4)

----------------------------------------------------------------------------
(* read_var_int.                                                           *)

\* val = ((next_val & 0x7F) << shift) | val.  The groups already in val lie
\* below bit shift, so the OR is a sum.  Python integers are unbounded; every
\* value of 2^28 or more is represented by MaxVarInt.
VarIntMerge(v, sh, b) ==
    IF v >= MaxVarInt THEN MaxVarInt
    ELSE IF sh >= 28 THEN (IF b % 128 = 0 THEN v ELSE MaxVarInt)
    ELSE Min(((b % 128) * (2 ^ sh)) + v, MaxVarInt)

\* a slip of the shift: groups of 8 bits instead of 7
NextShiftByte(sh) == Min(sh + 8, 28)

\* shift += 7 (kept at 28 once no group can be told apart any more)
NextShift(sh) == Min(sh + 7, 28)

\* not next_val & 0x80
LastByte(b) == b < 128

\* The loop of read_var_int from accumulator v, shift sh and position p:
\* ord(file_obj.read(1)) raises TypeError on an exhausted source.
RECURSIVE VarIntLoop(_, _, _, _)
VarIntLoop(s, p, v, sh) ==
    IF p >= Len(s)
    THEN [ok |-> FALSE, val |-> v, pos |-> p]
    ELSE LET b == s[p + 1]
             nv == VarIntMerge(v, sh, b)
         IN IF LastByte(b)
            THEN [ok |-> TRUE, val |-> nv, pos |-> p + 1]
            ELSE VarIntLoop(s, p + 1, nv, NextShift(sh))

read_var_int(s, p) == VarIntLoop(s, p, 0, 0)

\* read_block: num = read_var_int(fobj); return fobj.read(num)
read_block(s, p) ==
    LET n == read_var_int(s, p)
    IN IF ~n.ok
       THEN [ok |-> FALSE, data |-> <<>>, pos |-> n.pos]
       ELSE [ok |-> TRUE, data |-> Read(s, n.pos, n.val),
             pos |-> AfterRead(s, n.pos, n.val)]

----------------------------------------------------------------------------
(* The schema decoder (ncStream_pb2), as the specification describes it:   *)
(* a block decodes to a message with the fields of section 3.  The model's *)
(* wire form of a message is positional; an absent byte is the field's     *)
(* default.                                                                *)

ByteAt(b, i) == IF i <= Len(b) THEN b[i] ELSE 0
From(b, i) == IF i <= Len(b) THEN SubSeq(b, i, Len(b)) ELSE <<>>

\* stream.Header(): a header not yet parsed
EmptyHeader == [type |-> "Header", body |-> <<>>]
\* Header.ParseFromString: the message is cleared and filled from the block
ParseHeader(b) == [type |-> "Header", body |-> b]

\* Data.ParseFromString: dataType, flags (vdata, compress, bigend),
\* uncompressedSize, then one byte per section.range[].size
ParseData(b) ==
    [dataType |-> ByteAt(b, 1),
     vdata |-> ByteAt(b, 2) % 2 = 1,
     compress |-> (ByteAt(b, 2) \div 2) % 4,
     bigend |-> (ByteAt(b, 2) \div 8) % 2 = 1,
     uncompressedSize |-> ByteAt(b, 3),
     range |-> From(b, 4)]

\* stream.StructureData(): a record not yet parsed
EmptyStructureData == [type |-> "StructureData", rowLength |-> 0, data |-> <<>>]
\* StructureData.ParseFromString: rowLength, then the row bytes
ParseStructureData(b) ==
    [type |-> "StructureData", rowLength |-> ByteAt(b, 1), data |-> From(b, 2)]

\* Error.ParseFromString(...).message: the text of the block
ParseError(b) == b

----------------------------------------------------------------------------
(* numpy element types, written as numpy writes them: a type string is a   *)
(* sequence of characters, a dtype is its kind, its width in bytes and its *)
(* byte order ("|" where byte order does not apply).                       *)

Digit(c) == CASE c = "1" -> 1 [] c = "2" -> 2 [] c = "4" -> 4 [] c = "8" -> 8

\* np.dtype(t) for the type strings of the table, with or without a
\* leading byte-order character
NpDtype(t) ==
    LET code == IF t[1] \in {"=", "<", ">", "|"} THEN Tail(t) ELSE t
        c == code[1]
        kind == CASE c = "b" -> "i" [] c = "B" -> "u" [] OTHER -> c
        size == IF Len(code) > 1 THEN Digit(code[2])
                ELSE IF c = "O" THEN 8 ELSE 1
    IN [kind |-> kind, size |-> size,
        order |-> IF kind \in {"i", "u", "f"} /\ size > 1 THEN "=" ELSE "|",
        field |-> ""]

\* dt.newbyteorder(e)
NewByteOrder(dt, e) == IF dt.order = "|" THEN dt ELSE [dt EXCEPT !.order = e]

\* basic_type.replace(a, b)
StrReplace(s, a, b) == [i \in 1..Len(s) |-> IF s[i] = a THEN b ELSE s[i]]

dtypeLookup ==
    (CHAR :> <<"S", "1">>) @@ (BYTE :> <<"b">>) @@ (SHORT :> <<"i", "2">>) @@
    (INT :> <<"i", "4">>) @@ (LONG :> <<"i", "8">>) @@ (FLOAT :> <<"f", "4">>) @@
    (DOUBLE :> <<"f", "8">>) @@ (STRING_ :> <<"O">>) @@
    (ENUM1 :> <<"B">>) @@ (ENUM2 :> <<"u", "2">>) @@ (ENUM4 :> <<"u", "4">>) @@
    (OPAQUE :> <<"O">>)

NoDtype == [kind |-> "", size |-> 0, order |-> "|", field |-> ""]

\* data_type_to_numpy(datatype, unsigned): KeyError for a code not in the table
data_type_to_numpy(datatype, unsigned) ==
    IF datatype \notin DOMAIN dtypeLookup
    THEN [ok |-> FALSE, err |-> Raise("KeyError"), dt |-> NoDtype]
    ELSE LET basic_type == dtypeLookup[datatype]
         IN IF datatype \in {STRING_, OPAQUE}
            THEN [ok |-> TRUE, err |-> NoError, dt |-> NpDtype(basic_type)]
            ELSE LET replaced == IF unsigned
                                 THEN StrReplace(basic_type, "i", "u")
                                 ELSE basic_type
                 IN [ok |-> TRUE, err |-> NoError,
                     dt |-> NpDtype(<<"=">> \o replaced)]

----------------------------------------------------------------------------
(* make_array.                                                             *)

\* zlib.decompress, modelled by a run-length code: the compressed form is a
\* sequence of (count, byte) pairs; a buffer of odd length is not a valid
\* compressed stream (zlib.error).
InflateOk(buf) == Len(buf) % 2 = 0

RECURSIVE Repeat(_, _)
Repeat(b, n) == IF n = 0 THEN <<>> ELSE <<b>> \o Repeat(b, n - 1)

RECURSIVE Inflate(_)
Inflate(buf) ==
    IF Len(buf) < 2 THEN <<>>
    ELSE Repeat(buf[2], buf[1]) \o Inflate(SubSeq(buf, 3, Len(buf)))

RECURSIVE Product(_)
Product(shape) == IF shape = <<>> THEN 1 ELSE Head(shape) * Product(Tail(shape))

NoArray == [type |-> "ndarray", dtype |-> NoDtype, buf |-> <<>>, shape |-> <<>>]
Failed(kind) == [ok |-> FALSE, err |-> Raise(kind), arr |-> NoArray]

\* lines 118-127: the element type.  buf is a StructureData for STRUCTURE
ArrayDtype(h, buf) ==
    IF h.dataType = STRUCTURE
    THEN [ok |-> TRUE, err |-> NoError,
          dt |-> [kind |-> "V", size |-> buf.rowLength, order |-> "|",
                  field |-> IF h.bigend THEN ">" ELSE "<"]]
    ELSE LET r == data_type_to_numpy(h.dataType, FALSE)
         IN [r EXCEPT !.dt = NewByteOrder(r.dt, ">")]

\* the decompression without the assertion on the inflated length
ArrayBytesNoAssert(h, raw) ==
    IF h.compress = DEFLATE
    THEN IF h.dataType # STRUCTURE
         THEN IF ~InflateOk(raw)
              THEN [ok |-> FALSE, err |-> Raise("zlib.error"), buf |-> <<>>]
              ELSE [ok |-> TRUE, err |-> NoError, buf |-> Inflate(raw)]
         ELSE [ok |-> TRUE, err |-> NoError, buf |-> raw]
    ELSE IF h.compress # NONE
         THEN [ok |-> FALSE, err |-> Raise("NotImplementedError"), buf |-> <<>>]
         ELSE [ok |-> TRUE, err |-> NoError, buf |-> raw]

\* lines 135-143: the bytes after decompression
ArrayBytes(h, raw) ==
    IF h.compress = DEFLATE
    THEN IF h.dataType # STRUCTURE
         THEN IF ~InflateOk(raw)
              THEN [ok |-> FALSE, err |-> Raise("zlib.error"), buf |-> <<>>]
              ELSE IF Len(Inflate(raw)) # h.uncompressedSize
                   THEN [ok |-> FALSE, err |-> Raise("AssertionError"),
                         buf |-> <<>>]
                   ELSE [ok |-> TRUE, err |-> NoError, buf |-> Inflate(raw)]
         ELSE [ok |-> TRUE, err |-> NoError, buf |-> raw]
    ELSE IF h.compress # NONE
         THEN [ok |-> FALSE, err |-> Raise("NotImplementedError"), buf |-> <<>>]
         ELSE [ok |-> TRUE, err |-> NoError, buf |-> raw]

\* lines 145-151: np.frombuffer over the bytes (ValueError for an object
\* type, a zero width or a length that is no multiple of the width), then
\* the reshape when shape is neither None nor empty (ValueError when the
\* element count is not the product of the shape)
ArrayView(h, dt, buf) ==
    IF dt.kind = "O" \/ dt.size = 0 \/ Len(buf) % dt.size # 0
    THEN Failed("ValueError")
    ELSE LET count == Len(buf) \div dt.size
             shape == IF h.vdata THEN <<>> ELSE h.range
         IN IF shape # <<>>
            THEN IF Product(shape) # count
                 THEN Failed("ValueError")
                 ELSE [ok |-> TRUE, err |-> NoError,
                       arr |-> [type |-> "ndarray", dtype |-> dt, buf |-> buf,
                                shape |-> shape]]
            ELSE [ok |-> TRUE, err |-> NoError,
                  arr |-> [type |-> "ndarray", dtype |-> dt, buf |-> buf,
                           shape |-> <<count>>]]

make_array(h, buf) ==
    LET d == ArrayDtype(h, buf)
        raw == IF h.dataType = STRUCTURE THEN buf.data ELSE buf
        b == ArrayBytes(h, raw)
    IN IF ~d.ok THEN [ok |-> FALSE, err |-> d.err, arr |-> NoArray]
       ELSE IF ~b.ok THEN [ok |-> FALSE, err |-> b.err, arr |-> NoArray]
       ELSE ArrayView(h, d.dt, b.buf)

----------------------------------------------------------------------------
(* read_ncstream_messages.                                                 *)

\* a read_magic that leaves the bytes it returns in the source
AfterMagicPeek(s, p) == p

\* position of the source after read_magic
AfterMagic(s, p) == AfterRead(s, p, 4)

\* line 35: messages[0].ParseFromString(block), after the append of line 34
HeaderParsed(msgs, b) == [msgs EXCEPT ![1] = ParseHeader(b)]

\* a sub-frame that replaces the block list instead of extending it
SeqParsedOnly(blks, b) == <<ParseStructureData(b)>>

\* lines 76-77: blocks.append(StructureData()); blocks[0].ParseFromString(block)
SeqParsed(blks, b) ==
    [Append(blks, EmptyStructureData) EXCEPT ![1] = ParseStructureData(b)]

\* line 45: blocks = [read_block(fobj) for _ in range(num_obj)], the blocks
\* read so far being acc
RECURSIVE ReadBlocksFrom(_, _, _, _)
ReadBlocksFrom(s, p, k, acc) ==
    IF k = 0 THEN [ok |-> TRUE, blocks |-> acc, pos |-> p]
    ELSE LET b == read_block(s, p)
         IN IF ~b.ok THEN [ok |-> FALSE, blocks |-> <<>>, pos |-> b.pos]
            ELSE ReadBlocksFrom(s, b.pos, k - 1, Append(acc, b.data))

ReadBlocks(s, p, k) == ReadBlocksFrom(s, p, k, <<>>)

\* b.decode('utf-8', errors='ignore'): the code points of the one-byte and
\* two-byte sequences; any other byte is dropped
RECURSIVE Utf8Ignore(_)
Utf8Ignore(b) ==
    IF b = <<>> THEN <<>>
    ELSE IF b[1] < 128 THEN <<b[1]>> \o Utf8Ignore(Tail(b))
    ELSE IF b[1] \in 194..223 /\ Len(b) >= 2 /\ b[2] \in 128..191
         THEN <<((b[1] - 192) * 64) + (b[2] - 128)>> \o Utf8Ignore(From(b, 3))
    ELSE Utf8Ignore(Tail(b))

\* lines 46-55: the message of a STRING, OPAQUE or vdata frame from its blocks
VlenMessage(h, blks) ==
    LET elems == IF h.dataType = STRING_
                 THEN [i \in 1..Len(blks) |-> Utf8Ignore(blks[i])]
                 ELSE blks
        r == data_type_to_numpy(h.dataType, FALSE)
        dt == NewByteOrder(r.dt, ">")
    IN IF ~r.ok THEN [ok |-> FALSE, err |-> r.err, msg |-> NoArray]
       ELSE IF h.vdata
            THEN IF \E i \in 1..Len(elems) :
                        dt.kind = "O" \/ Len(elems[i]) % dt.size # 0
                 THEN [ok |-> FALSE, err |-> Raise("ValueError"), msg |-> NoArray]
                 ELSE [ok |-> TRUE, err |-> NoError,
                       msg |-> [type |-> "vlen", dtype |-> dt, elems |-> elems]]
            ELSE [ok |-> TRUE, err |-> NoError,
                  msg |-> [type |-> "vlen", dtype |-> dt, elems |-> elems]]

\* raise: the call ends with exception e at position p, the list as it is
Throw(e, p, msgs) ==
    /\ pc' = "failed"
    /\ err' = e
    /\ pos' = p
    /\ messages' = msgs
    /\ UNCHANGED <<src, ret, decoded, val, shift, call>>

\* messages.append(m) at position p; the loop goes on to the next frame
Emit(m, p) ==
    /\ pc' = "frame"
    /\ pos' = p
    /\ messages' = Append(messages, m)
    /\ decoded' = Append(decoded, m)
    /\ UNCHANGED <<src, err, ret, val, shift, call>>

AtFrame(m) == pc = "frame" /\ read_magic(src, pos) = m

\* lines 28-30 and 90: an empty magic ends the loop; the list is returned
EndOfStream ==
    /\ AtFrame(<<>>)
    /\ pc' = "done"
    /\ magic' = <<>>
    /\ ret' = <<messages>>
    /\ UNCHANGED <<src, pos, err, messages, data, blocks, decoded, records,
                   seqStart, val, shift, call>>

\* lines 32-36
HeaderFrame ==
    /\ AtFrame(MAGIC_HEADER)
    /\ magic' = MAGIC_HEADER
    /\ UNCHANGED <<data, blocks, records, seqStart>>
    /\ LET appended == Append(messages, EmptyHeader)
           p == AfterMagic(src, pos)
           b == read_block(src, p)
       IN IF appended[1].type # "Header"
          THEN Throw(Raise("AttributeError"), p, appended)
          ELSE IF ~b.ok
          THEN Throw(Raise("TypeError"), b.pos, appended)
          ELSE /\ pc' = "frame"
               /\ pos' = b.pos
               /\ messages' = HeaderParsed(appended, b.data)
               /\ decoded' = Append(decoded, ParseHeader(b.data))
               /\ UNCHANGED <<src, err, ret, val, shift, call>>

IsVlen(h) == h.dataType \in {STRING_, OPAQUE} \/ h.vdata

\* lines 37-41: the Data header is read and parsed; the branch on its
\* dataType follows
DataFrame ==
    /\ AtFrame(MAGIC_DATA)
    /\ magic' = MAGIC_DATA
    /\ UNCHANGED <<blocks, records, seqStart>>
    /\ LET b == read_block(src, AfterMagic(src, pos))
       IN IF ~b.ok
          THEN data' = data /\ Throw(Raise("TypeError"), b.pos, messages)
          ELSE /\ data' = ParseData(b.data)
               /\ pos' = b.pos
               /\ pc' = "data"
               /\ UNCHANGED <<src, err, ret, messages, decoded, val, shift, call>>

\* lines 42-55
DataVlen ==
    /\ pc = "data"
    /\ IsVlen(data)
    /\ UNCHANGED <<magic, data, records, seqStart>>
    /\ LET n == read_var_int(src, pos)
           r == ReadBlocks(src, n.pos, n.val)
           m == VlenMessage(data, r.blocks)
       IN IF ~n.ok
          THEN blocks' = blocks /\ Throw(Raise("TypeError"), n.pos, messages)
          ELSE IF ~r.ok
          THEN blocks' = blocks /\ Throw(Raise("TypeError"), r.pos, messages)
          ELSE /\ blocks' = r.blocks
               /\ IF ~m.ok THEN Throw(m.err, r.pos, messages)
                  ELSE Emit(m.msg, r.pos)

\* lines 56-61
DataArray ==
    /\ pc = "data"
    /\ ~IsVlen(data)
    /\ data.dataType \in DOMAIN dtypeLookup
    /\ UNCHANGED <<magic, data, blocks, records, seqStart>>
    /\ LET b == read_block(src, pos)
           a == make_array(data, b.data)
       IN IF ~b.ok THEN Throw(Raise("TypeError"), b.pos, messages)
          ELSE IF ~a.ok THEN Throw(a.err, b.pos, messages)
          ELSE Emit(a.arr, b.pos)

\* lines 62-68
DataStructure ==
    /\ pc = "data"
    /\ ~IsVlen(data)
    /\ data.dataType \notin DOMAIN dtypeLookup
    /\ data.dataType = STRUCTURE
    /\ UNCHANGED <<magic, data, blocks, records, seqStart>>
    /\ LET b == read_block(src, pos)
           a == make_array(data, ParseStructureData(b.data))
       IN IF ~b.ok THEN Throw(Raise("TypeError"), b.pos, messages)
          ELSE IF ~a.ok THEN Throw(a.err, b.pos, messages)
          ELSE Emit(a.arr, b.pos)

\* lines 69-72: the SEQUENCE sub-loop is entered with its first magic read
DataSequence ==
    /\ pc = "data"
    /\ ~IsVlen(data)
    /\ data.dataType \notin DOMAIN dtypeLookup
    /\ data.dataType = SEQUENCE
    /\ blocks' = <<>>
    /\ records' = <<>>
    /\ seqStart' = pos
    /\ magic' = read_magic(src, pos)
    /\ pos' = AfterMagic(src, pos)
    /\ pc' = "seq"
    /\ UNCHANGED <<src, err, ret, messages, data, decoded, val, shift, call>>

\* lines 80-82
DataUnsupported ==
    /\ pc = "data"
    /\ ~IsVlen(data)
    /\ data.dataType \notin DOMAIN dtypeLookup
    /\ data.dataType \notin {STRUCTURE, SEQUENCE}
    /\ UNCHANGED <<magic, data, blocks, records, seqStart>>
    /\ Throw(Raise("NotImplementedError"), pos, messages)

\* a sub-loop that also ends when the source has no whole magic left
SeqOverAtEnd(m) == m = MAGIC_VEND \/ Len(m) < 4

\* line 73: while magic != MAGIC_VEND
SeqOver(m) == m = MAGIC_VEND

\* lines 73-78: one iteration of the sub-loop
SeqRecord ==
    /\ pc = "seq"
    /\ ~SeqOver(magic)
    /\ UNCHANGED <<data, seqStart>>
    /\ LET b == read_block(src, pos)
       IN IF ~b.ok
          THEN /\ blocks' = Append(blocks, EmptyStructureData)
               /\ UNCHANGED <<magic, records>>
               /\ Throw(Raise("TypeError"), b.pos, messages)
          ELSE /\ blocks' = SeqParsed(blocks, b.data)
               /\ records' = Append(records, ParseStructureData(b.data))
               /\ magic' = read_magic(src, b.pos)
               /\ pos' = AfterMagic(src, b.pos)
               /\ UNCHANGED <<src, pc, err, ret, messages, decoded, val, shift,
                              call>>

\* lines 73 and 79: VEND ends the sub-loop; (data, blocks) is appended
SeqEnd ==
    /\ pc = "seq"
    /\ SeqOver(magic)
    /\ pc' = "frame"
    /\ messages' = Append(messages,
                          [type |-> "tuple", data |-> data, blocks |-> blocks])
    /\ decoded' = Append(decoded,
                         [type |-> "tuple", data |-> data, blocks |-> records])
    /\ UNCHANGED <<src, pos, err, ret, magic, data, blocks, records, seqStart,
                   val, shift, call>>

\* an ERR frame that is read and logged, the loop going on
ErrFrameLogged ==
    /\ AtFrame(MAGIC_ERR)
    /\ magic' = MAGIC_ERR
    /\ UNCHANGED <<data, blocks, records, seqStart>>
    /\ LET b == read_block(src, AfterMagic(src, pos))
       IN IF ~b.ok THEN Throw(Raise("TypeError"), b.pos, messages)
          ELSE /\ pc' = "frame"
               /\ pos' = b.pos
               /\ UNCHANGED <<src, err, ret, messages, decoded, val, shift, call>>

\* lines 83-86
ErrFrame ==
    /\ AtFrame(MAGIC_ERR)
    /\ magic' = MAGIC_ERR
    /\ UNCHANGED <<data, blocks, records, seqStart>>
    /\ LET b == read_block(src, AfterMagic(src, pos))
       IN IF ~b.ok THEN Throw(Raise("TypeError"), b.pos, messages)
          ELSE Throw([kind |-> "RuntimeError", text |-> ParseError(b.data)],
                     b.pos, messages)

\* lines 87-88: any other magic, a partial one included, is logged.  The
\* text of the log line is built with '%02x' % b for b in magic.  On Python 3
\* b is an int and the loop goes on; on Python 2.7 (the interpreter line 20
\* speaks of) b is a one-character str and the format raises TypeError.
UnknownMagic ==
    /\ pc = "frame"
    /\ read_magic(src, pos) \notin {<<>>, MAGIC_HEADER, MAGIC_DATA, MAGIC_ERR}
    /\ magic' = read_magic(src, pos)
    /\ UNCHANGED <<data, blocks, records, seqStart>>
    /\ \/ /\ pos' = AfterMagic(src, pos)
          /\ UNCHANGED <<src, pc, err, ret, messages, decoded, val, shift, call>>
       \/ Throw(Raise("TypeError"), AfterMagic(src, pos), messages)

NoData == ParseData(<<>>)

\* the sources read_ncstream_messages is run on: up to MaxFrames pieces, each
\* a frame or a fragment of one
Block(b) == <<Len(b)>> \o b

Pieces ==
    { MAGIC_HEADER \o Block(<<>>),
      MAGIC_HEADER \o Block(<<7>>),
      MAGIC_DATA \o Block(<<INT, 0, 0, 1>>) \o Block(<<0, 0, 0, 42>>),
      MAGIC_DATA \o Block(<<STRUCTURE, 8>>) \o Block(<<2, 5, 6>>),
      MAGIC_DATA \o Block(<<SEQUENCE>>),
      MAGIC_DATA \o Block(<<SEQUENCE>>) \o MAGIC_DATA \o Block(<<3, 4, 5, 6>>),
      MAGIC_VDATA \o Block(<<1, 9>>),
      MAGIC_VEND,
      MAGIC_ERR \o Block(<<69>>),
      MAGIC_DATA \o Block(<<14>>),
      MAGIC_DATA \o Block(<<14, 1>>) \o <<0>>,
      MAGIC_DATA \o Block(<<INT, 1>>) \o <<1>> \o Block(<<0, 0, 0, 7>>),
      MAGIC_DATA \o Block(<<STRUCTURE, 1>>) \o <<1>> \o Block(<<5>>),
      MAGIC_DATA \o <<128>>,
      <<171, 3>> }

RECURSIVE StreamsOf(_)
StreamsOf(k) ==
    IF k = 0 THEN {<<>>}
    ELSE {<<>>} \cup {p \o s : p \in Pieces, s \in StreamsOf(k - 1)}

\* the state in which read_ncstream_messages is entered on a source
InitOn(sources) ==
    /\ src \in sources
    /\ pos = 0
    /\ pc = "frame"
    /\ err = NoError
    /\ ret = <<>>
    /\ messages = <<>>
    /\ magic = <<>>
    /\ data = NoData
    /\ blocks = <<>>
    /\ decoded = <<>>
    /\ records = <<>>
    /\ seqStart = 0
    /\ val = 0
    /\ shift = 0
    /\ call = [fn |-> "read_ncstream_messages"]

Init == InitOn(StreamsOf(MaxFrames))

Next ==
    \/ EndOfStream
    \/ HeaderFrame
    \/ DataFrame
    \/ DataVlen
    \/ DataArray
    \/ DataStructure
    \/ DataSequence
    \/ DataUnsupported
    \/ SeqRecord
    \/ SeqEnd
    \/ ErrFrame
    \/ UnknownMagic

Spec == Init /\ [][Next]_vars

----------------------------------------------------------------------------
(* read_var_int and read_block run on their own, one byte at a time.       *)

\* lines 248-252: one iteration of the loop of read_var_int
VarIntByte ==
    /\ pc = "varint"
    /\ pos < Len(src)
    /\ LET b == src[pos + 1]
       IN /\ val' = VarIntMerge(val, shift, b)
          /\ shift' = NextShift(shift)
          /\ pos' = pos + 1
          /\ IF ~LastByte(b) THEN pc' = "varint" /\ ret' = ret
             ELSE IF call.fn = "read_block" THEN pc' = "payload" /\ ret' = ret
             ELSE pc' = "done" /\ ret' = <<val'>>
    /\ UNCHANGED <<src, err, messages, magic, data, blocks, decoded, records,
                   seqStart, call>>

\* an exhausted source taken as the end of the encoding: the value
\* accumulated so far is returned
VarIntEndReturns ==
    /\ pc = "varint"
    /\ pos >= Len(src)
    /\ IF call.fn = "read_block" THEN pc' = "payload" /\ ret' = ret
       ELSE pc' = "done" /\ ret' = <<val>>
    /\ UNCHANGED <<src, pos, err, messages, magic, data, blocks, decoded,
                   records, seqStart, val, shift, call>>

\* line 248 on an exhausted source: ord(b'') raises TypeError
VarIntEnd ==
    /\ pc = "varint"
    /\ pos >= Len(src)
    /\ pc' = "failed"
    /\ err' = Raise("TypeError")
    /\ UNCHANGED <<src, pos, ret, messages, magic, data, blocks, decoded,
                   records, seqStart, val, shift, call>>

\* line 99: return fobj.read(num)
BlockPayload ==
    /\ pc = "payload"
    /\ ret' = <<Read(src, pos, val)>>
    /\ pos' = AfterRead(src, pos, val)
    /\ pc' = "done"
    /\ UNCHANGED <<src, err, messages, magic, data, blocks, decoded, records,
                   seqStart, val, shift, call>>

\* the sources of the frame reader: every byte sequence of up to MaxLen bytes
\* over ReaderBytes, and the encodings of the values 0..MaxSmall and of the
\* values of up to MaxGroups groups, each followed by a tail
MaxLen == 4
MaxGroups == 3
MaxSmall == 300
ReaderBytes == {0, 2, 128, 255}
GroupValues == {0, 1, 2, 44, 127}
Tails == {<<>>, <<0>>, <<255>>, <<5, 130>>}

RECURSIVE ByteSeqs(_)
ByteSeqs(n) ==
    IF n = 0 THEN {<<>>}
    ELSE {<<>>} \cup {<<b>> \o s : b \in ReaderBytes, s \in ByteSeqs(n - 1)}

RECURSIVE ValuesOf(_)
ValuesOf(n) ==
    IF n = 0 THEN {0}
    ELSE {g + (128 * v) : g \in GroupValues, v \in ValuesOf(n - 1)}

VarintValues == ValuesOf(MaxGroups) \cup (0..MaxSmall)

\* the base-128 encoding of v: the low 7 bits first, the high bit set on all
\* but the last byte
RECURSIVE Encode(_)
Encode(v) == IF v < 128 THEN <<v>> ELSE <<(v % 128) + 128>> \o Encode(v \div 128)

InitReader ==
    /\ src \in ByteSeqs(MaxLen) \cup {Encode(v) \o t : v \in VarintValues, t \in Tails}
    /\ call \in {[fn |-> "read_var_int"], [fn |-> "read_block"]}
    /\ pos = 0
    /\ pc = "varint"
    /\ err = NoError
    /\ ret = <<>>
    /\ messages = <<>>
    /\ magic = <<>>
    /\ data = NoData
    /\ blocks = <<>>
    /\ decoded = <<>>
    /\ records = <<>>
    /\ seqStart = 0
    /\ val = 0
    /\ shift = 0

NextReader == VarIntByte \/ VarIntEnd \/ BlockPayload

SpecReader == InitReader /\ [][NextReader]_vars

\* Every decode call, and every call of the frame reader, under the
\* scheduling of a sequential program: a step that can be taken is taken.
MaxFairFrames == 2
InitAll == InitOn(StreamsOf(MaxFairFrames)) \/ InitReader
NextAll == Next \/ NextReader
FairSpec == InitAll /\ [][NextAll]_vars /\ WF_vars(NextAll)

----------------------------------------------------------------------------
(* The type table and the compound layout, called on their own.            *)

MaxTypeCode == 15
MaxVars == 2

\* np.dtype(fields): the record layout of the named fields
CompoundDtype(fields) ==
    [kind |-> "V", order |-> "|", field |-> "", fields |-> fields,
     size |-> LET RECURSIVE Sum(_)
                  Sum(f) == IF f = <<>> THEN 0 ELSE Head(f)[2].size + Sum(Tail(f))
              IN Sum(fields)]

\* struct_to_dtype: the fields of struct.vars, then those of struct.structs
RECURSIVE struct_to_dtype(_)
struct_to_dtype(struct) ==
    LET var(i) == data_type_to_numpy(struct.vars[i].dataType,
                                     struct.vars[i].unsigned)
        sub(i) == struct_to_dtype(struct.structs[i])
    IN IF \E i \in 1..Len(struct.vars) : ~var(i).ok
       THEN [ok |-> FALSE, err |-> Raise("KeyError"), dt |-> NoDtype]
       ELSE IF \E i \in 1..Len(struct.structs) : ~sub(i).ok
       THEN [ok |-> FALSE, err |-> Raise("KeyError"), dt |-> NoDtype]
       ELSE [ok |-> TRUE, err |-> NoError,
             dt |-> CompoundDtype(
                 [i \in 1..Len(struct.vars) |-> <<struct.vars[i].name, var(i).dt>>]
                 \o [i \in 1..Len(struct.structs) |->
                         <<struct.structs[i].name, sub(i).dt>>])]

FieldNames == <<"a", "b", "c", "d">>
VarKinds == {[dataType |-> INT, unsigned |-> FALSE],
             [dataType |-> INT, unsigned |-> TRUE],
             [dataType |-> BYTE, unsigned |-> TRUE],
             [dataType |-> STRING_, unsigned |-> FALSE],
             [dataType |-> SEQUENCE, unsigned |-> FALSE]}

RECURSIVE VarLists(_)
VarLists(n) ==
    IF n = 0 THEN {<<>>}
    ELSE {<<>>} \cup
         {Append(l, [name |-> FieldNames[Len(l) + 1], dataType |-> k.dataType,
                     unsigned |-> k.unsigned]) :
              l \in {x \in VarLists(n - 1) : Len(x) = n - 1}, k \in VarKinds}
         \cup VarLists(n - 1)

FlatStructs == {[name |-> "s", vars |-> l, structs |-> <<>>] : l \in VarLists(MaxVars)}
Structs == FlatStructs \cup
           {[name |-> "t", vars |-> l, structs |-> <<s>>] :
                l \in VarLists(1), s \in FlatStructs}

\* a call of data_type_to_numpy
TypeCall ==
    /\ pc = "call"
    /\ call.fn = "data_type_to_numpy"
    /\ LET r == data_type_to_numpy(call.datatype, call.unsigned)
       IN IF r.ok THEN pc' = "done" /\ ret' = <<r.dt>> /\ err' = err
          ELSE pc' = "failed" /\ err' = r.err /\ ret' = ret
    /\ UNCHANGED <<src, pos, messages, magic, data, blocks, decoded, records,
                   seqStart, val, shift, call>>

\* a call of struct_to_dtype
StructCall ==
    /\ pc = "call"
    /\ call.fn = "struct_to_dtype"
    /\ LET r == struct_to_dtype(call.struct)
       IN IF r.ok THEN pc' = "done" /\ ret' = <<r.dt>> /\ err' = err
          ELSE pc' = "failed" /\ err' = r.err /\ ret' = ret
    /\ UNCHANGED <<src, pos, messages, magic, data, blocks, decoded, records,
                   seqStart, val, shift, call>>

InitCall(calls) ==
    /\ call \in calls
    /\ pc = "call"
    /\ src = <<>>
    /\ pos = 0
    /\ err = NoError
    /\ ret = <<>>
    /\ messages = <<>>
    /\ magic = <<>>
    /\ data = NoData
    /\ blocks = <<>>
    /\ decoded = <<>>
    /\ records = <<>>
    /\ seqStart = 0
    /\ val = 0
    /\ shift = 0

InitTypes ==
    InitCall({[fn |-> "data_type_to_numpy", datatype |-> d, unsigned |-> u] :
                  d \in 0..MaxTypeCode, u \in BOOLEAN}
             \cup {[fn |-> "struct_to_dtype", struct |-> s] : s \in Structs})

NextTypes == TypeCall \/ StructCall

SpecTypes == InitTypes /\ [][NextTypes]_vars

----------------------------------------------------------------------------
(* make_array, called on its own.                                          *)

MaxBuf == 4
MaxSize == 4
BufBytes == {0, 2}
ArrayTypes == {BYTE, INT, STRING_, STRUCTURE, SEQUENCE}
Shapes == {<<>>, <<2>>, <<2, 2>>}

RECURSIVE Bufs(_)
Bufs(n) ==
    IF n = 0 THEN {<<>>}
    ELSE {<<>>} \cup {<<b>> \o s : b \in BufBytes, s \in Bufs(n - 1)}

Headers ==
    [dataType : ArrayTypes, vdata : BOOLEAN, compress : 0..2, bigend : BOOLEAN,
     uncompressedSize : 0..MaxSize, range : Shapes]

\* a call of make_array: buf is bytes, or a StructureData for STRUCTURE
ArrayCall ==
    /\ pc = "call"
    /\ call.fn = "make_array"
    /\ LET r == make_array(call.header, call.buf)
       IN IF r.ok THEN pc' = "done" /\ ret' = <<r.arr>> /\ err' = err
          ELSE pc' = "failed" /\ err' = r.err /\ ret' = ret
    /\ UNCHANGED <<src, pos, messages, magic, data, blocks, decoded, records,
                   seqStart, val, shift, call>>

InitArray ==
    \/ InitCall({[fn |-> "make_array", header |-> h, buf |-> b] :
                     h \in {x \in Headers : x.dataType # STRUCTURE},
                     b \in Bufs(MaxBuf)})
    \/ InitCall({[fn |-> "make_array", header |-> h,
                  buf |-> ParseStructureData(b)] :
                     h \in {x \in Headers : x.dataType = STRUCTURE},
                     b \in Bufs(MaxBuf)})

NextArray == ArrayCall

SpecArray == InitArray /\ [][NextArray]_vars

----------------------------------------------------------------------------
(* unpack_attribute and unpack_variable, called on their own.  An          *)
(* Attribute has the fields of section 3: name, type, len, data (bytes),   *)
(* sdata (a string, here a sequence of characters) and unsigned.           *)

MaxAttrLen == 3
MaxText == 2

\* _attrConverters, keyed by the name of the stream.Attribute type
attrConverters ==
    ("BYTE" :> NewByteOrder(NpDtype(<<">", "b">>), ">")) @@
    ("SHORT" :> NewByteOrder(NpDtype(<<">", "i", "2">>), ">")) @@
    ("INT" :> NewByteOrder(NpDtype(<<">", "i", "4">>), ">")) @@
    ("LONG" :> NewByteOrder(NpDtype(<<">", "i", "8">>), ">")) @@
    ("FLOAT" :> NewByteOrder(NpDtype(<<">", "f", "4">>), ">")) @@
    ("DOUBLE" :> NewByteOrder(NpDtype(<<">", "f", "8">>), ">"))

\* the values of python the decoders return
NoneValue == [type |-> "None"]
StrValue(text) == [type |-> "str", text |-> text]
ArrayValue(dt, buf) ==
    [type |-> "ndarray", dtype |-> dt, buf |-> buf,
     shape |-> <<Len(buf) \div dt.size>>]
ScalarValue(dt, buf) == [type |-> "scalar", dtype |-> dt, buf |-> buf]

\* np.fromstring(s, dtype=dt, count=n): the first n elements; ValueError when
\* the string holds fewer than n
FromStringCount(s, dt, n) ==
    IF Len(s) < n * dt.size
    THEN [ok |-> FALSE, err |-> Raise("ValueError"), val |-> NoneValue]
    ELSE [ok |-> TRUE, err |-> NoError,
          val |-> ArrayValue(dt, SubSeq(s, 1, n * dt.size))]

\* val[0]: the first character of a string, the first element of an array
FirstOf(v) ==
    IF v.type = "str"
    THEN IF v.text = <<>>
         THEN [ok |-> FALSE, err |-> Raise("IndexError"), val |-> NoneValue]
         ELSE [ok |-> TRUE, err |-> NoError, val |-> StrValue(<<v.text[1]>>)]
    ELSE IF v.buf = <<>>
         THEN [ok |-> FALSE, err |-> Raise("IndexError"), val |-> NoneValue]
         ELSE [ok |-> TRUE, err |-> NoError,
               val |-> ScalarValue(v.dtype, SubSeq(v.buf, 1, v.dtype.size))]

\* lines 226-232: the value before the collapse of a single element
AttributeValue(att) ==
    IF att.len = 0
    THEN [ok |-> TRUE, err |-> NoError, val |-> NoneValue]
    ELSE IF att.type = "STRING"
    THEN [ok |-> TRUE, err |-> NoError, val |-> StrValue(att.sdata)]
    ELSE IF att.type \notin DOMAIN attrConverters
    THEN [ok |-> FALSE, err |-> Raise("KeyError"), val |-> NoneValue]
    ELSE FromStringCount(att.data, attrConverters[att.type], att.len)

\* unpack_attribute: (att.name, val), val[0] taking the place of val when
\* att.len == 1
unpack_attribute(att) ==
    LET v == AttributeValue(att)
        r == IF v.ok /\ att.len = 1 THEN FirstOf(v.val) ELSE v
    IN [ok |-> r.ok, err |-> r.err, name |-> att.name, val |-> r.val]

AttrTypes == {"STRING", "BYTE", "SHORT", "CHAR"}
TextChars == {"a", "b"}

RECURSIVE Texts(_)
Texts(n) ==
    IF n = 0 THEN {<<>>}
    ELSE {<<>>} \cup {<<c>> \o t : c \in TextChars, t \in Texts(n - 1)}

Attributes ==
    [name : {"units"}, type : AttrTypes, len : 0..MaxAttrLen,
     data : Bufs(MaxAttrLen), sdata : Texts(MaxText), unsigned : BOOLEAN]

\* a call of unpack_attribute
AttrCall ==
    /\ pc = "call"
    /\ call.fn = "unpack_attribute"
    /\ LET r == unpack_attribute(call.att)
       IN IF r.ok
          THEN pc' = "done" /\ ret' = <<[name |-> r.name, val |-> r.val]>>
               /\ err' = err
          ELSE pc' = "failed" /\ err' = r.err /\ ret' = ret
    /\ UNCHANGED <<src, pos, messages, magic, data, blocks, decoded, records,
                   seqStart, val, shift, call>>

InitAttr == InitCall({[fn |-> "unpack_attribute", att |-> a] : a \in Attributes})

\* np.fromstring(s, dtype=dt): ValueError for an object type and for a length
\* that is no multiple of the element width
FromString(s, dt) ==
    IF dt.kind = "O" \/ Len(s) % dt.size # 0
    THEN [ok |-> FALSE, err |-> Raise("ValueError"), val |-> NoneValue]
    ELSE [ok |-> TRUE, err |-> NoError, val |-> ArrayValue(dt, s)]

\* dt.name: the kind and the width in bits
DtypeName(dt) == [name |-> "dtype", kind |-> dt.kind, bits |-> 8 * dt.size]
TypeName(n) == [name |-> n, kind |-> "", bits |-> 0]

NoResult == [ok |-> FALSE, err |-> NoError, data |-> NoneValue, dt |-> NoDtype,
             type_name |-> TypeName("")]

\* lines 194-212: the variable of a type looked up in the table
UnpackBasic(var) ==
    LET r == data_type_to_numpy(var.dataType, var.unsigned)
        type_name == IF var.dataType = OPAQUE THEN TypeName("opaque")
                     ELSE IF var.dataType = STRING_ THEN TypeName("string")
                     ELSE DtypeName(r.dt)
        d == IF var.data # <<>>
             THEN FromString(var.data, NewByteOrder(r.dt, ">"))
             ELSE [ok |-> TRUE, err |-> NoError, val |-> NoneValue]
    IN IF ~r.ok THEN [NoResult EXCEPT !.err = r.err]
       ELSE IF ~d.ok THEN [NoResult EXCEPT !.err = d.err]
       ELSE [ok |-> TRUE, err |-> NoError, data |-> d.val, dt |-> r.dt,
             type_name |-> type_name]

\* unpack_variable: a STRUCTURE returns at line 190; a SEQUENCE is logged at
\* line 192 and goes on to line 194 like any other type
unpack_variable(var) ==
    IF var.dataType = STRUCTURE
    THEN LET s == struct_to_dtype(var)
         IN IF ~s.ok THEN [NoResult EXCEPT !.err = s.err]
            ELSE [ok |-> TRUE, err |-> NoError, data |-> NoneValue,
                  dt |-> s.dt, type_name |-> TypeName("Structure")]
    ELSE UnpackBasic(var)

VarTypes == {BYTE, INT, STRING_, OPAQUE, SEQUENCE, 14}

Variables ==
    [name : {"v"}, dataType : VarTypes, unsigned : BOOLEAN,
     data : Bufs(MaxAttrLen), vars : {<<>>}, structs : {<<>>}]
    \cup {[name |-> s.name, dataType |-> STRUCTURE, unsigned |-> FALSE,
           data |-> d, vars |-> s.vars, structs |-> s.structs] :
              s \in Structs, d \in {<<>>, <<2>>}}

\* a call of unpack_variable
VarCall ==
    /\ pc = "call"
    /\ call.fn = "unpack_variable"
    /\ LET r == unpack_variable(call.var)
       IN IF r.ok
          THEN pc' = "done" /\ err' = err
               /\ ret' = <<[data |-> r.data, dt |-> r.dt,
                            type_name |-> r.type_name]>>
          ELSE pc' = "failed" /\ err' = r.err /\ ret' = ret
    /\ UNCHANGED <<src, pos, messages, magic, data, blocks, decoded, records,
                   seqStart, val, shift, call>>

InitVar == InitCall({[fn |-> "unpack_variable", var |-> v] : v \in Variables})

InitMeta == InitAttr \/ InitVar
NextMeta == AttrCall \/ VarCall
SpecMeta == InitMeta /\ [][NextMeta]_vars

----------------------------------------------------------------------------
(* Properties of read_ncstream_messages.                                   *)

Last(s) == s[Len(s)]
Terminal == pc \in {"done", "failed"}

\* C1: a call that returns returns exactly one message per HEADER frame and
\* per DATA frame read at top level (a SEQUENCE with its sub-frames being
\* one), the i-th message being the one decoded from the i-th such frame;
\* unrecognized magics contribute nothing.
C1_ListMatchesFrames == pc = "done" => ret = <<decoded>>

\* C2: a HEADER frame whose block can be read appends a Header filled from
\* that block and leaves the messages already in the list as they are.
C2_HeaderAppends ==
    [][(AtFrame(MAGIC_HEADER) /\ read_block(src, AfterMagic(src, pos)).ok)
          => /\ pc' = "frame"
             /\ messages' = Append(messages,
                    ParseHeader(read_block(src, AfterMagic(src, pos)).data))]_vars

\* The sub-frames that follow a SEQUENCE header, read off the bytes: from
\* position p, n frames counted so far, up to and including the VEND magic.
\* ok when every frame before VEND is a magic and a complete block whose
\* length is one byte.
RECURSIVE WalkToVend(_, _, _)
WalkToVend(s, p, n) ==
    IF Len(s) >= p + 4 /\ SubSeq(s, p + 1, p + 4) = MAGIC_VEND
    THEN [ok |-> TRUE, n |-> n, end |-> p + 4]
    ELSE IF Len(s) < p + 5 THEN [ok |-> FALSE, n |-> n, end |-> p]
    ELSE IF s[p + 5] >= 128 \/ Len(s) < p + 5 + s[p + 5]
    THEN [ok |-> FALSE, n |-> n, end |-> p]
    ELSE WalkToVend(s, p + 5 + s[p + 5], n + 1)

\* C3: a SEQUENCE DATA frame followed by N frames and a VEND magic appends
\* nothing until VEND has been read, then appends exactly one message (header,
\* blocks) with exactly N blocks, the source standing just after the 4 VEND
\* bytes at that moment.
C3_SequenceToVend ==
    [][(pc = "seq" /\ WalkToVend(src, seqStart, 0).ok)
          => LET w == WalkToVend(src, seqStart, 0)
             IN IF pos < w.end
                THEN /\ pc' = "seq"
                     /\ messages' = messages
                     /\ pos < pos'
                     /\ pos' <= w.end
                ELSE /\ pos = w.end
                     /\ pos' = pos
                     /\ pc' = "frame"
                     /\ Len(blocks) = w.n
                     /\ messages' = Append(messages,
                            [type |-> "tuple", data |-> data, blocks |-> blocks])]_vars

C3_Witness ==
    /\ pc = "frame"
    /\ messages # <<>>
    /\ Last(messages).type = "tuple"
    /\ Len(Last(messages).blocks) = 2
    /\ WalkToVend(src, seqStart, 0) = [ok |-> TRUE, n |-> 2, end |-> pos]

\* the Error block after an ERR magic at the current position, read off the
\* bytes: complete when its one-byte length and that many bytes are there
ErrBlockComplete ==
    /\ Len(src) >= pos + 5
    /\ src[pos + 5] < 128
    /\ Len(src) >= pos + 5 + src[pos + 5]
ErrBlockEnd == pos + 5 + src[pos + 5]

\* C4: an ERR magic at top level ends the call with a failure and no
\* returned list; when the Error block is complete the failure carries the
\* text of that block and the source stands just after the block; a failed
\* call never goes on to read or return anything.
C4_ErrAborts ==
    [][/\ AtFrame(MAGIC_ERR)
          => /\ pc' = "failed"
             /\ ret' = <<>>
             /\ ErrBlockComplete
                   => /\ err' = [kind |-> "RuntimeError",
                                 text |-> SubSeq(src, pos + 6, ErrBlockEnd)]
                      /\ pos' = ErrBlockEnd
       /\ pc = "failed" => (pc' = "failed" /\ ret' = <<>> /\ pos' = pos)]_vars

C4_Witness ==
    /\ pc = "failed"
    /\ err = [kind |-> "RuntimeError", text |-> <<69>>]
    /\ messages # <<>>
    /\ pos < Len(src)
    /\ ret = <<>>

KnownTypes == DOMAIN dtypeLookup \cup {STRUCTURE, SEQUENCE}

\* C5: a DATA frame whose header declares a dataType outside the known set
\* ends the call with the unsupported-data-type error (NotImplementedError),
\* whatever the other header fields are.
C5_UnknownTypeFails ==
    [][(pc = "data" /\ data.dataType \notin KnownTypes)
          => (pc' = "failed" /\ err'.kind = "NotImplementedError")]_vars

\* C8: every call ends, returning or raising; the step that begins an
\* iteration of the frame loop, of the SEQUENCE sub-loop or of the varint
\* loop consumes at least one byte or ends the call, and no step gives a
\* byte back.
C8_Terminates ==
    /\ [][/\ pos <= pos'
          /\ (pc = "frame" \/ (pc = "seq" /\ magic # MAGIC_VEND) \/ pc = "varint")
                => (pos < pos' \/ pc' \in {"done", "failed"})]_vars
    /\ <>Terminal

C8_Witness ==
    /\ call.fn = "read_ncstream_messages"
    /\ pc = "failed"
    /\ Len(records) = 2
    /\ magic # MAGIC_VEND
    /\ pos = Len(src)

----------------------------------------------------------------------------
(* Properties of the frame reader.                                         *)

\* the number of bytes of the varint at the start of s: up to and including
\* the first byte whose high bit is clear (Len(s) + 1 when there is none)
RECURSIVE VarintLen(_)
VarintLen(s) ==
    IF s = <<>> THEN 1 ELSE IF s[1] < 128 THEN 1 ELSE 1 + VarintLen(Tail(s))

\* C6: read_block, after a length n, returns exactly the next n bytes and
\* stands len(varint)+n bytes on when that many bytes remain, and fails
\* otherwise; it never returns a payload of another length.
C6_BlockExact ==
    (call.fn = "read_block" /\ Terminal /\ VarintLen(src) <= Len(src))
       => LET k == VarintLen(src)
          IN IF Len(src) - k >= val
             THEN /\ pc = "done"
                  /\ ret = <<SubSeq(src, k + 1, k + val)>>
                  /\ pos = k + val
             ELSE pc = "failed"

IsPrefix(a, b) == Len(a) <= Len(b) /\ SubSeq(b, 1, Len(a)) = a

\* C7: on the base-128 encoding of v, whatever follows it, read_var_int
\* does not fail, returns v and has consumed exactly the bytes of the
\* encoding.
C7_VarintRoundTrip ==
    \A v \in VarintValues :
        (call.fn = "read_var_int" /\ IsPrefix(Encode(v), src))
           => /\ pc # "failed"
              /\ pos <= Len(Encode(v))
              /\ pc = "done" => (ret = <<v>> /\ pos = Len(Encode(v)))

C7_Witness ==
    /\ call.fn = "read_var_int"
    /\ pc = "done"
    /\ src = <<255, 255, 127, 5, 130>>
    /\ ret = <<2097151>>
    /\ pos = 3

----------------------------------------------------------------------------
(* Properties of the type table.                                           *)

\* the element encodings of section 4.5: kind and width in bytes (the width
\* of the object kinds is left open)
TypeTable ==
    (CHAR :> <<"S", 1>>) @@ (BYTE :> <<"i", 1>>) @@ (SHORT :> <<"i", 2>>) @@
    (INT :> <<"i", 4>>) @@ (LONG :> <<"i", 8>>) @@ (FLOAT :> <<"f", 4>>) @@
    (DOUBLE :> <<"f", 8>>) @@ (STRING_ :> <<"O", 0>>) @@
    (ENUM1 :> <<"u", 1>>) @@ (ENUM2 :> <<"u", 2>>) @@ (ENUM4 :> <<"u", 4>>) @@
    (OPAQUE :> <<"O", 0>>)

\* C9: data_type_to_numpy returns the table's encoding, with the unsigned
\* kind of the same width for BYTE, SHORT, INT and LONG when the unsigned
\* flag is set, the flag changing nothing for the other codes.
C9_UnsignedKinds ==
    (call.fn = "data_type_to_numpy" /\ pc # "call"
     /\ call.datatype \in DOMAIN TypeTable)
       => /\ pc = "done"
          /\ ret[1].kind =
                IF call.unsigned /\ call.datatype \in {BYTE, SHORT, INT, LONG}
                THEN "u" ELSE TypeTable[call.datatype][1]
          /\ ret[1].kind # "O" => ret[1].size = TypeTable[call.datatype][2]

----------------------------------------------------------------------------
(* Properties of make_array.                                               *)

\* C10: with compress = DEFLATE and a dataType other than STRUCTURE,
\* make_array returns an array only if the inflated length equals
\* uncompressedSize, and then the array is built over the inflated bytes; an
\* inflated buffer of another length makes it fail, by the assertion when
\* the type is one of the table.
C10_DeflateIntegrity ==
    (call.fn = "make_array" /\ pc # "call" /\ call.header.compress = DEFLATE
     /\ call.header.dataType # STRUCTURE)
       => /\ pc = "done"
             => /\ InflateOk(call.buf)
                /\ Len(Inflate(call.buf)) = call.header.uncompressedSize
                /\ ret[1].buf = Inflate(call.buf)
          /\ (InflateOk(call.buf)
              /\ Len(Inflate(call.buf)) # call.header.uncompressedSize)
             => /\ pc = "failed"
                /\ ret = <<>>
                /\ call.header.dataType \in DOMAIN dtypeLookup
                      => err.kind = "AssertionError"

C10_Witness ==
    /\ call.fn = "make_array"
    /\ pc = "done"
    /\ call.header.compress = DEFLATE
    /\ call.header.dataType = INT
    /\ call.buf = <<2, 0, 2, 2>>
    /\ ret[1].buf = <<0, 0, 2, 2>>

----------------------------------------------------------------------------
(* Properties of unpack_attribute and unpack_variable.                     *)

\* C11: unpack_attribute returns a null value for every attribute with
\* len = 0, and for every STRING attribute with len >= 1, len = 1 included,
\* it returns the whole sdata text as the value.
C11_StringWhole ==
    (call.fn = "unpack_attribute" /\ pc # "call")
       => /\ call.att.len = 0
                => (pc = "done" /\ ret[1].val = NoneValue)
          /\ (call.att.len >= 1 /\ call.att.type = "STRING")
                => (pc = "done" /\ ret[1].val = StrValue(call.att.sdata))

----------------------------------------------------------------------------
(* Further properties of read_ncstream_messages.                           *)

\* C12: inside the SEQUENCE sub-loop the k-th entry of the block list is the
\* StructureData decoded from the payload of the k-th frame read after the
\* SEQUENCE header: reading a later frame changes no earlier entry and
\* leaves no new entry empty.
C12_BlocksInOrder == pc = "seq" => blocks = records


\* C13: an ERR magic read inside the SEQUENCE sub-loop, with its Error block
\* complete, ends the call with the server error (RuntimeError) carrying the
\* text of the block; the block is not appended as a structure record and
\* nothing further is read.
C13_ErrAbortsInSequence ==
    [][(pc = "seq" /\ magic = MAGIC_ERR /\ read_block(src, pos).ok)
          => /\ pc' = "failed"
             /\ err' = [kind |-> "RuntimeError",
                        text |-> ParseError(read_block(src, pos).data)]
             /\ pos' = read_block(src, pos).pos
             /\ Len(blocks') = Len(blocks)]_vars


\* C14: a (header, blocks) message is appended only by the step that follows
\* the reading of a VEND magic; the sub-loop is left only that way or by a
\* failure; and once the source has ended inside the sub-loop (an empty or
\* partial magic was read) the call fails, returning no list and appending
\* nothing.
C14_SequenceNeedsVend ==
    /\ [][/\ (Len(messages') > Len(messages) /\ Last(messages').type = "tuple")
                => /\ pc = "seq"
                   /\ magic = MAGIC_VEND
                   /\ pos >= 4
                   /\ SubSeq(src, pos - 3, pos) = MAGIC_VEND
          /\ pc = "seq"
                => \/ pc' \in {"seq", "failed"}
                   \/ magic = MAGIC_VEND /\ pc' = "frame"
          /\ (pc = "seq" /\ Len(magic) < 4)
                => /\ pc' = "failed"
                   /\ ret' = <<>>
                   /\ messages' = messages]_vars
    /\ (pc = "seq" /\ Len(magic) < 4) ~> (pc = "failed" /\ ret = <<>>)

C14_Witness ==
    /\ call.fn = "read_ncstream_messages"
    /\ pc = "failed"
    /\ err.kind = "TypeError"
    /\ magic = <<171, 3>>
    /\ Len(records) = 1
    /\ Len(blocks) = 2
    /\ messages = <<>>
    /\ ret = <<>>
    /\ pos = Len(src)


----------------------------------------------------------------------------
(* Further properties of make_array.                                       *)

\* C15: for a header of dataType STRUCTURE and every value of compress,
\* make_array does not fail because of the compress field, and the array it
\* returns is built over StructureData.data as it is, not inflated.
C15_StructureVerbatim ==
    (call.fn = "make_array" /\ pc # "call" /\ call.header.dataType = STRUCTURE)
       => /\ err.kind # "NotImplementedError"
          /\ pc = "done" => ret[1].buf = call.buf.data


\* C16: for a header without vdata, whenever make_array returns an array the
\* length of the buffer after decompression is the product of the sizes of
\* section.range (1 for an empty range list) times the element width; a
\* buffer of another length makes make_array fail.
C16_LengthMatchesShape ==
    (call.fn = "make_array" /\ pc = "done" /\ ~call.header.vdata)
       => Len(ret[1].buf) = Product(call.header.range) * ret[1].dtype.size


----------------------------------------------------------------------------
(* Further properties of read_ncstream_messages (continued).               *)

\* C17: for a DATA header with vdata set and any dataType of the DataHeader
\* enum, when a count k and k blocks can be read the dispatcher appends one
\* ragged message of exactly k elements, the source standing just after the
\* k-th block, and goes on with the next frame: it takes neither the
\* STRUCTURE nor the SEQUENCE path and does not fail on the dataType.
C17_VdataAnyType ==
    [][(/\ pc = "data"
        /\ data.vdata
        /\ data.dataType \in KnownTypes
        /\ read_var_int(src, pos).ok
        /\ ReadBlocks(src, read_var_int(src, pos).pos,
                      read_var_int(src, pos).val).ok)
          => LET n == read_var_int(src, pos)
                 r == ReadBlocks(src, n.pos, n.val)
             IN /\ pc' = "frame"
                /\ pos' = r.pos
                /\ Len(messages') = Len(messages) + 1
                /\ Last(messages').type = "vlen"
                /\ Len(Last(messages').elems) = n.val]_vars


\* C18: when the 4 bytes read as a magic at top level are none of HEADER,
\* DATA and ERR, the dispatcher only logs: no error is raised, the message
\* list is unchanged, exactly those 4 bytes are consumed and the loop goes
\* on to read the following bytes as the next magic.
C18_UnknownMagicSkipped ==
    [][(/\ pc = "frame"
        /\ Len(read_magic(src, pos)) = 4
        /\ read_magic(src, pos) \notin {MAGIC_HEADER, MAGIC_DATA, MAGIC_ERR})
          => /\ pc' = "frame"
             /\ err' = NoError
             /\ messages' = messages
             /\ pos' = pos + 4
             /\ ret' = <<>>]_vars


----------------------------------------------------------------------------
(* Further properties of the frame reader.                                 *)

\* C19: read_var_int fails, returning no value, whenever the source ends
\* before a byte with the high bit clear has been read (an empty source, or
\* one whose bytes all have the high bit set); a value it returns is never
\* built from an unterminated encoding.
C19_VarintTruncated ==
    (call.fn = "read_var_int" /\ Terminal)
       => /\ VarintLen(src) > Len(src)
                => /\ pc = "failed"
                   /\ err.kind = "TypeError"
                   /\ ret = <<>>
                   /\ pos = Len(src)
          /\ pc = "done"
                => /\ VarintLen(src) <= Len(src)
                   /\ pos = VarintLen(src)
                   /\ src[pos] < 128

C19_Witness ==
    /\ call.fn = "read_var_int"
    /\ pc = "failed"
    /\ err.kind = "TypeError"
    /\ src = <<128, 255, 255>>
    /\ pos = 3
    /\ ret = <<>>


----------------------------------------------------------------------------
(* Further properties of unpack_variable.                                  *)

\* C20: unpack_variable on a variable whose dataType is SEQUENCE returns (a
\* result marking the type as unsupported) and does not fail with the lookup
\* error of the type table; on a STRUCTURE whose members are in the table it
\* returns no data, the compound layout and the name "Structure".
C20_SequenceMarked ==
    (call.fn = "unpack_variable" /\ pc # "call")
       => /\ call.var.dataType = SEQUENCE
                => (pc = "done" /\ err.kind # "KeyError")
          /\ (call.var.dataType = STRUCTURE /\ struct_to_dtype(call.var).ok)
                => /\ pc = "done"
                   /\ ret[1].data = NoneValue
                   /\ ret[1].dt = struct_to_dtype(call.var).dt
                   /\ ret[1].type_name = TypeName("Structure")

=============================================================================
